---- MODULE Spec2Model ----
(***************************************************************************)
(* DNASHAPER.py: FASTA parsing, per-entry table normalisation and          *)
(* averaging, row-count reconciliation (auto-trim and validation) and the  *)
(* part of workbook rendering that decides whether an output is offered.   *)
(*                                                                         *)
(* Text is modelled as sequences of one-character strings, file names as   *)
(* sequences of segments.  Numbers are pairs <<p, q>> (the fraction p/q in *)
(* lowest terms); <<0, 0>> is NaN.  Numeric tokens are unsigned decimal    *)
(* integers and means are exact fractions (no float rounding).  The input  *)
(* alphabet has no double quote, so csv.reader never enters a quoted       *)
(* field; the uploads are a readable zip archive and UTF-8 text.           *)
(***************************************************************************)
EXTENDS Integers, Sequences, FiniteSets, TLC

VARIABLES
    fasta_lines,        \* input: uploaded_fasta split into lines
    zip_entries,        \* input: archive listing, <<[file_name, lines]>>
    pc,                 \* position of the script
    fi,                 \* index of the FASTA loop
    current_id,         \* None or the identifier of the open record
    current_seq_lines,
    sequence_ids,
    sequences,
    txt_files,          \* indices of zip_entries whose name ends with .txt
    ti,                 \* index of the archive loop
    dataframes,         \* insertion-ordered dict: <<[key, df]>>
    row_counts,
    min_len,
    warnings,           \* st.warning calls
    errors,             \* st.error calls
    exception,          \* uncaught exception that ended the run, or None
    wb,                 \* workbook: None, or [ws1, ws_avg]
    download            \* TRUE once st.download_button was reached

vars == <<fasta_lines, zip_entries, pc, fi, current_id, current_seq_lines,
          sequence_ids, sequences, txt_files, ti, dataframes, row_counts,
          min_len, warnings, errors, exception, wb, download>>

None == <<"None">>

----------------------------------------------------------------------------
(* Bounds of the explored inputs *)
MaxFastaLines == 3
MaxLines == 3
MaxEntries == 2
MaxRows == 3
MaxSeqs == 3

----------------------------------------------------------------------------
(* Characters and str methods *)
Whitespace == {" ", "\t"}
Digits == {"0", "1", "2", "3", "4", "5", "6", "7", "8", "9"}
Alpha == {"a", "N", "x"}

Min(a, b) == IF a <= b THEN a ELSE b
Abs(a) == IF a < 0 THEN -a ELSE a
Take(s, n) == SubSeq(s, 1, Min(n, Len(s)))

RECURSIVE lstrip(_)
lstrip(s) ==
    IF s # <<>> /\ Head(s) \in Whitespace THEN lstrip(Tail(s)) ELSE s

RECURSIVE rstrip(_)
rstrip(s) ==
    IF s # <<>> /\ s[Len(s)] \in Whitespace
    THEN rstrip(SubSeq(s, 1, Len(s) - 1)) ELSE s

strip(s) == rstrip(lstrip(s))

startswith(s, c) == s # <<>> /\ Head(s) = c

\* ''.join(list)
RECURSIVE join(_)
join(l) == IF l = <<>> THEN <<>> ELSE Head(l) \o join(Tail(l))

\* sep.join(list), sep one character
RECURSIVE joinsep(_, _)
joinsep(sep, l) ==
    IF l = <<>> THEN <<>>
    ELSE IF Len(l) = 1 THEN Head(l)
    ELSE Head(l) \o <<sep>> \o joinsep(sep, Tail(l))

\* s.replace(a, b), a and b one character
replace(s, a, b) == [i \in 1..Len(s) |-> IF s[i] = a THEN b ELSE s[i]]

\* s.split(sep) for a one-character sep: Len = 1 + number of sep in s
RECURSIVE splitchar(_, _, _)
splitchar(s, sep, cur) ==
    IF s = <<>> THEN <<cur>>
    ELSE IF Head(s) = sep THEN <<cur>> \o splitchar(Tail(s), sep, <<>>)
    ELSE splitchar(Tail(s), sep, Append(cur, Head(s)))

\* s.split(): split on runs of whitespace, no empty strings
RECURSIVE splitws(_, _)
splitws(s, cur) ==
    IF s = <<>> THEN (IF cur = <<>> THEN <<>> ELSE <<cur>>)
    ELSE IF Head(s) \in Whitespace
         THEN (IF cur = <<>> THEN <<>> ELSE <<cur>>) \o splitws(Tail(s), <<>>)
         ELSE splitws(Tail(s), Append(cur, Head(s)))

----------------------------------------------------------------------------
(* FASTA parse loop, lines 17-33 *)
FastaStep ==
    /\ pc = "fasta"
    /\ fi <= Len(fasta_lines)
    /\ LET line == fasta_lines[fi] IN
       IF startswith(line, ">")
       THEN /\ IF current_id # None
               THEN /\ sequence_ids' = Append(sequence_ids, current_id)
                    /\ sequences' = Append(sequences, join(current_seq_lines))
               ELSE UNCHANGED <<sequence_ids, sequences>>
            /\ current_id' = strip(Tail(line))
            /\ current_seq_lines' = <<>>
       ELSE /\ current_seq_lines' = Append(current_seq_lines, strip(line))
            /\ UNCHANGED <<current_id, sequence_ids, sequences>>
    /\ fi' = fi + 1
    /\ UNCHANGED <<fasta_lines, zip_entries, pc, txt_files, ti, dataframes,
                   row_counts, min_len, warnings, errors, exception, wb,
                   download>>

\* the record still open at the end of the input is not appended
FastaEndNoFlush ==
    /\ pc = "fasta"
    /\ fi > Len(fasta_lines)
    /\ pc' = "zip"
    /\ UNCHANGED <<fasta_lines, zip_entries, fi, current_id,
                   current_seq_lines, sequence_ids, sequences, txt_files, ti,
                   dataframes, row_counts, min_len, warnings, errors,
                   exception, wb, download>>

FastaEnd ==
    /\ pc = "fasta"
    /\ fi > Len(fasta_lines)
    /\ IF current_id # None
       THEN /\ sequence_ids' = Append(sequence_ids, current_id)
            /\ sequences' = Append(sequences, join(current_seq_lines))
       ELSE UNCHANGED <<sequence_ids, sequences>>
    /\ pc' = "zip"
    /\ UNCHANGED <<fasta_lines, zip_entries, fi, current_id,
                   current_seq_lines, txt_files, ti, dataframes, row_counts,
                   min_len, warnings, errors, exception, wb, download>>

----------------------------------------------------------------------------
(* Numbers: to_numeric, fillna, mean *)
NaN == <<0, 0>>
Num(n) == <<n, 1>>
IsReal(v) == v[2] # 0

DigitValue(c) ==
    CASE c = "0" -> 0 [] c = "1" -> 1 [] c = "2" -> 2 [] c = "3" -> 3
      [] c = "4" -> 4 [] c = "5" -> 5 [] c = "6" -> 6 [] c = "7" -> 7
      [] c = "8" -> 8 [] c = "9" -> 9

RECURSIVE DecValue(_, _)
DecValue(tok, acc) ==
    IF tok = <<>> THEN acc
    ELSE DecValue(Tail(tok), 10 * acc + DigitValue(Head(tok)))

\* pd.to_numeric(..., errors='coerce') on one cell, line 58
to_numeric(tok) ==
    IF tok # <<>> /\ \A i \in 1..Len(tok) : tok[i] \in Digits
    THEN Num(DecValue(tok, 0)) ELSE NaN

\* .fillna(0) on one cell, line 58
fillna(v) == IF v = NaN THEN Num(0) ELSE v

RECURSIVE GCD(_, _)
GCD(a, b) == IF b = 0 THEN a ELSE GCD(b, a % b)

Frac(p, q) == LET g == GCD(p, q) IN IF g = 0 THEN <<p, q>> ELSE <<p \div g, q \div g>>

RECURSIVE SumNum(_)
SumNum(row) ==
    IF row = <<>> THEN 0
    ELSE (IF IsReal(Head(row)) THEN Head(row)[1] ELSE 0) + SumNum(Tail(row))

CountReal(row) == Cardinality({i \in 1..Len(row) : IsReal(row[i])})

\* the row's sum, not divided by the number of cells
mean_sum(row) ==
    IF CountReal(row) = 0 THEN NaN ELSE Frac(SumNum(row), 1)

\* df.mean(axis=1) on one row of integer cells (skipna), line 61
mean(row) ==
    IF CountReal(row) = 0 THEN NaN ELSE Frac(SumNum(row), CountReal(row))

----------------------------------------------------------------------------
(* TXT normalisation, lines 45-63 *)

\* lines 45-47: one line of the entry to one line of csv_ready
CleanLine(raw) ==
    LET line == replace(strip(raw), "\t", " ")
        cleaned == joinsep(" ", splitws(line, <<>>))
    IN  replace(cleaned, " ", ",")

csv_ready(lines) == joinsep("\n", [i \in 1..Len(lines) |-> CleanLine(lines[i])])

\* iteration of StringIO: the lines of the text, no line after a final "\n"
StringIOLines(text) ==
    LET parts == splitchar(text, "\n", <<>>)
    IN  IF parts[Len(parts)] = <<>> THEN SubSeq(parts, 1, Len(parts) - 1)
        ELSE parts

\* csv.reader on one unquoted line: [] for an empty line
CsvRow(line) == IF line = <<>> THEN <<>> ELSE splitchar(line, ",", <<>>)

\* lines 49-50
reader(text) ==
    LET ls == StringIOLines(text) IN [i \in 1..Len(ls) |-> CsvRow(ls[i])]

\* no row is filtered out
KeepRowAll(r) == TRUE

\* line 51: the condition of the row filter
KeepRow(r) == Len(r) > 0 /\ ~(\A i \in 1..Len(r) : r[i] = <<>>)

RECURSIVE FilterRows(_)
FilterRows(rows) ==
    IF rows = <<>> THEN <<>>
    ELSE (IF KeepRow(Head(rows)) THEN <<Head(rows)>> ELSE <<>>)
         \o FilterRows(Tail(rows))

RECURSIVE MaxLen(_)
MaxLen(rows) ==
    IF Len(rows) = 1 THEN Len(rows[1])
    ELSE LET m == MaxLen(Tail(rows)) IN
         IF Len(rows[1]) >= m THEN Len(rows[1]) ELSE m

\* short rows are left short
PadRowNone(row, max_cols) == row

\* line 53
PadRow(row, max_cols) == row \o [i \in 1..(max_cols - Len(row)) |-> <<"0">>]

padded(rows) == [i \in 1..Len(rows) |-> PadRow(rows[i], MaxLen(rows))]

\* only the first cell of the row is looked at
HasAlphaFirstCell(row) ==
    row # <<>> /\ \E j \in 1..Len(row[1]) : row[1][j] \in Alpha

\* line 54: any(any(c.isalpha() for c in cell) for cell in padded_rows[0])
HasAlpha(row) ==
    \E i \in 1..Len(row) : \E j \in 1..Len(row[i]) : row[i][j] \in Alpha

\* lines 54-55
SkipHeader(padded_rows) ==
    IF HasAlpha(padded_rows[1]) THEN Tail(padded_rows) ELSE padded_rows

\* line 56
StripFirstColumn(padded_rows) ==
    [i \in 1..Len(padded_rows) |-> SubSeq(padded_rows[i], 2, Len(padded_rows[i]))]

\* lines 57-58: DataFrame of the rows, every cell to_numeric and fillna(0)
DataFrame(padded_rows) ==
    [data |-> [i \in 1..Len(padded_rows) |->
                 [j \in 1..Len(padded_rows[i]) |->
                     fillna(to_numeric(padded_rows[i][j]))]],
     columns |-> IF padded_rows = <<>> THEN 0 ELSE Len(padded_rows[1])]

\* line 61: df[avg(base_name)] = df.mean(axis=1)
AddAvg(df) ==
    [data |-> [i \in 1..Len(df.data) |-> Append(df.data[i], mean(df.data[i]))],
     columns |-> df.columns + 1]

\* lines 49-51
Rows(lines) == FilterRows(reader(csv_ready(lines)))

\* lines 52-61 for an entry with at least one row left
Table(lines) ==
    AddAvg(DataFrame(StripFirstColumn(SkipHeader(padded(Rows(lines))))))

----------------------------------------------------------------------------
(* File names: sequences of segments, "/" and ".txt" being segments *)
endswith_txt(file_name) == file_name # <<>> /\ file_name[Len(file_name)] = ".txt"

\* file_name.split('/')[-1]
RECURSIVE LastComponent(_)
LastComponent(file_name) ==
    IF \E i \in 1..Len(file_name) : file_name[i] = "/"
    THEN LastComponent(Tail(file_name)) ELSE file_name

RECURSIVE RemoveTxt(_)
RemoveTxt(name) ==
    IF name = <<>> THEN <<>>
    ELSE (IF Head(name) = ".txt" THEN <<>> ELSE <<Head(name)>>) \o RemoveTxt(Tail(name))

\* line 60
BaseName(file_name) == RemoveTxt(LastComponent(file_name))

\* dataframes[key] = df on an insertion-ordered dict
DictSet(d, key, df) ==
    IF \E i \in 1..Len(d) : d[i].key = key
    THEN [i \in 1..Len(d) |-> IF d[i].key = key THEN [key |-> key, df |-> df] ELSE d[i]]
    ELSE Append(d, [key |-> key, df |-> df])

\* line 41
TxtFiles(entries) ==
    LET Sel[i \in 0..Len(entries)] ==
            IF i = 0 THEN <<>>
            ELSE IF endswith_txt(entries[i].file_name) THEN Append(Sel[i - 1], i)
            ELSE Sel[i - 1]
    IN  Sel[Len(entries)]

\* lines 36-41
OpenZip ==
    /\ pc = "zip"
    /\ txt_files' = TxtFiles(zip_entries)
    /\ ti' = 1
    /\ pc' = "txt"
    /\ UNCHANGED <<fasta_lines, zip_entries, fi, current_id,
                   current_seq_lines, sequence_ids, sequences, dataframes,
                   row_counts, min_len, warnings, errors, exception, wb,
                   download>>

\* lines 43-63: one iteration of the archive loop
ReadTxtFile ==
    /\ pc = "txt"
    /\ ti <= Len(txt_files)
    /\ LET entry == zip_entries[txt_files[ti]]
           rows == Rows(entry.lines)
       IN  IF rows = <<>>
           THEN \* max() of an empty sequence, line 52
                /\ exception' = "ValueError"
                /\ pc' = "crashed"
                /\ UNCHANGED <<dataframes, row_counts, ti>>
           ELSE LET df == Table(entry.lines) IN
                /\ dataframes' = DictSet(dataframes, BaseName(entry.file_name), df)
                /\ row_counts' = Append(row_counts, Len(df.data))
                /\ ti' = ti + 1
                /\ UNCHANGED <<exception, pc>>
    /\ UNCHANGED <<fasta_lines, zip_entries, fi, current_id,
                   current_seq_lines, sequence_ids, sequences, txt_files,
                   min_len, warnings, errors, wb, download>>

ZipEnd ==
    /\ pc = "txt"
    /\ ti > Len(txt_files)
    /\ pc' = "autotrim"
    /\ UNCHANGED <<fasta_lines, zip_entries, fi, current_id,
                   current_seq_lines, sequence_ids, sequences, txt_files, ti,
                   dataframes, row_counts, min_len, warnings, errors,
                   exception, wb, download>>

----------------------------------------------------------------------------
(* Auto-trim and validation, lines 65-83 *)

\* the table is not cut
iloc_head_all(df, n) == df

\* line 72: dataframes[key].iloc[:min_len]
iloc_head(df, n) == [data |-> Take(df.data, n), columns |-> df.columns]

\* lines 65-73
AutoTrim ==
    /\ pc = "autotrim"
    /\ IF row_counts = <<>>
       THEN \* row_counts[0] of an empty list, line 66
            /\ exception' = "IndexError"
            /\ pc' = "crashed"
            /\ UNCHANGED <<min_len, warnings, sequence_ids, sequences,
                           dataframes, row_counts>>
       ELSE /\ min_len' = Min(row_counts[1], Len(sequence_ids))
            /\ IF Abs(Len(sequence_ids) - row_counts[1]) = 1
               THEN /\ warnings' = Append(warnings, "auto-trimmed")
                    /\ sequence_ids' = Take(sequence_ids, min_len')
                    /\ sequences' = Take(sequences, min_len')
                    /\ dataframes' =
                          [k \in 1..Len(dataframes) |->
                              [key |-> dataframes[k].key,
                               df |-> iloc_head(dataframes[k].df, min_len')]]
                    /\ row_counts' = <<min_len'>>
               ELSE UNCHANGED <<warnings, sequence_ids, sequences,
                                dataframes, row_counts>>
            /\ pc' = "validate"
            /\ UNCHANGED exception
    /\ UNCHANGED <<fasta_lines, zip_entries, fi, current_id,
                   current_seq_lines, txt_files, ti, errors, wb, download>>

\* two different counts are let through
CountsDisagreeOverTwo(counts) == Cardinality({counts[i] : i \in 1..Len(counts)}) > 2

\* line 76: len(set(row_counts)) != 1
CountsDisagree(counts) == Cardinality({counts[i] : i \in 1..Len(counts)}) # 1

\* lines 78-79: one st.text per table
PerTableCounts(d) ==
    [k \in 1..Len(d) |-> [fname |-> d[k].key, rows |-> Len(d[k].df.data)]]

\* lines 75-83
Validate ==
    /\ pc = "validate"
    /\ IF CountsDisagree(row_counts)
       THEN /\ errors' = Append(errors, [kind |-> "RowCountMismatch",
                                         counts |-> PerTableCounts(dataframes)])
            /\ pc' = "stopped"
       ELSE IF Len(sequence_ids) # row_counts[1]
       THEN /\ errors' = Append(errors, [kind |-> "SequenceCountMismatch",
                                         counts |-> <<Len(sequence_ids), row_counts[1]>>])
            /\ pc' = "stopped"
       ELSE /\ pc' = "render"
            /\ UNCHANGED errors
    /\ UNCHANGED <<fasta_lines, zip_entries, fi, current_id,
                   current_seq_lines, sequence_ids, sequences, txt_files, ti,
                   dataframes, row_counts, min_len, warnings, exception, wb,
                   download>>

----------------------------------------------------------------------------
(* Workbook, lines 94-189: the cells written, without their styles *)

\* lines 96-150: sheet "Combined Data"
RenderCombined ==
    /\ pc = "render"
    /\ wb' = [ws1 |-> [ids |-> [i \in 1..row_counts[1] |->
                                  <<sequence_ids[i], sequences[i]>>],
                       blocks |-> [k \in 1..Len(dataframes) |->
                                     [name |-> dataframes[k].key,
                                      col_count |-> dataframes[k].df.columns,
                                      cells |-> dataframes[k].df.data]]],
              ws_avg |-> <<>>]
    /\ pc' = "averages"
    /\ UNCHANGED <<fasta_lines, zip_entries, fi, current_id,
                   current_seq_lines, sequence_ids, sequences, txt_files, ti,
                   dataframes, row_counts, min_len, warnings, errors,
                   exception, download>>

\* line 180 raises IndexError for the first row i some table does not have
AvgRowsFilled ==
    LET ok == {n \in 0..row_counts[1] :
                 \A i \in 1..n : \A k \in 1..Len(dataframes) :
                     i <= Len(dataframes[k].df.data)}
    IN  CHOOSE n \in ok : \A m \in ok : m <= n

\* lines 152-183: sheet "Only Averages"
RenderAverages ==
    /\ pc = "averages"
    /\ LET n == AvgRowsFilled IN
       /\ wb' = [wb EXCEPT !.ws_avg =
                    [i \in 1..n |->
                        [id |-> sequence_ids[i], seq |-> sequences[i],
                         avgs |-> [k \in 1..Len(dataframes) |->
                                     LET row == dataframes[k].df.data[i]
                                     IN  row[Len(row)]]]]]
       /\ IF n < row_counts[1]
          THEN /\ exception' = "IndexError"
               /\ pc' = "crashed"
          ELSE /\ pc' = "save"
               /\ UNCHANGED exception
    /\ UNCHANGED <<fasta_lines, zip_entries, fi, current_id,
                   current_seq_lines, sequence_ids, sequences, txt_files, ti,
                   dataframes, row_counts, min_len, warnings, errors,
                   download>>

\* lines 185-189
Save ==
    /\ pc = "save"
    /\ download' = TRUE
    /\ pc' = "done"
    /\ UNCHANGED <<fasta_lines, zip_entries, fi, current_id,
                   current_seq_lines, sequence_ids, sequences, txt_files, ti,
                   dataframes, row_counts, min_len, warnings, errors,
                   exception, wb>>

----------------------------------------------------------------------------
(* Inputs *)
DigitChar == <<"1", "2", "3", "4", "5", "6", "7", "8", "9">>

\* a FASTA file of s records of one sequence line each
FastaOf(s) ==
    [i \in 1..(2 * s) |->
        IF i % 2 = 1 THEN <<">", "s", DigitChar[(i + 1) \div 2]>>
        ELSE <<"A", DigitChar[i \div 2]>>]

\* an entry of k data lines "i<TAB>i"
EntryOfRows(k) == [i \in 1..k |-> <<DigitChar[i], "\t", DigitChar[i]>>]

HeaderOnly == << <<"x", " ", "a">> >>

FileNames ==
    { <<"a", "/", "x", ".txt">>, <<"b", "/", "x", ".txt">>, <<"y", ".txt">>,
      <<"readme", ".md">> }

SeqsUpTo(S, n) == UNION {[1..k -> S] : k \in 0..n}

Injective(f) == \A i, j \in DOMAIN f : i # j => f[i] # f[j]

Listings == {l \in SeqsUpTo(FileNames, MaxEntries) : Injective(l)}

Contents == {EntryOfRows(k) : k \in 0..MaxRows} \cup {HeaderOnly}

Archives ==
    UNION {{[i \in 1..Len(l) |-> [file_name |-> l[i], lines |-> c[i]]] :
              c \in [1..Len(l) -> Contents]} : l \in Listings}

RawLines ==
    { <<>>,
      <<" ", "\t">>,
      <<"7", " ", "1", " ", "2", " ", "3">>,
      <<"x", " ", "a">>,
      <<"1", "\t", "4">>,
      <<"5">>,
      <<"2", " ", "N", "a", "N", " ", "?">>,
      <<" ", "3", " ", " ", "1", "2", " ">>,
      <<"1", ",", "2">>,
      <<",">> }

FastaLineSet ==
    { <<>>,
      <<" ">>,
      <<">", "a">>,
      <<">", " ", "b", " ">>,
      <<">">>,
      <<"A", "C">>,
      <<" ", "G", "\t">>,
      <<" ", ">", "x">> }

InitRun ==
    /\ pc = "fasta"
    /\ fi = 1
    /\ current_id = None
    /\ current_seq_lines = <<>>
    /\ sequence_ids = <<>>
    /\ sequences = <<>>
    /\ txt_files = <<>>
    /\ ti = 0
    /\ dataframes = <<>>
    /\ row_counts = <<>>
    /\ min_len = 0
    /\ warnings = <<>>
    /\ errors = <<>>
    /\ exception = "None"
    /\ wb = None
    /\ download = FALSE

\* whole runs: any archive listing, any number of records
Init ==
    /\ fasta_lines \in {FastaOf(s) : s \in 0..MaxSeqs}
    /\ zip_entries \in Archives
    /\ InitRun

\* one entry of any text
InitNorm ==
    /\ fasta_lines = FastaOf(2)
    /\ \E ls \in SeqsUpTo(RawLines, MaxLines) :
          zip_entries \in
              { << [file_name |-> <<"y", ".txt">>, lines |-> ls] >>,
                << [file_name |-> <<"a", "/", "x", ".txt">>, lines |-> EntryOfRows(2)],
                   [file_name |-> <<"y", ".txt">>, lines |-> ls] >> }
    /\ InitRun

\* any FASTA text
InitFasta ==
    /\ fasta_lines \in SeqsUpTo(FastaLineSet, MaxFastaLines)
    /\ zip_entries \in {<< [file_name |-> <<"y", ".txt">>, lines |-> EntryOfRows(k)] >> :
                          k \in 1..2}
    /\ InitRun

Next ==
    \/ FastaStep
    \/ FastaEnd
    \/ OpenZip
    \/ ReadTxtFile
    \/ ZipEnd
    \/ AutoTrim
    \/ Validate
    \/ RenderCombined
    \/ RenderAverages
    \/ Save

Spec == Init /\ [][Next]_vars
SpecNorm == InitNorm /\ [][Next]_vars
SpecFasta == InitFasta /\ [][Next]_vars

----------------------------------------------------------------------------
(* Reference definitions used by the properties *)

\* s without its leading and trailing whitespace
Trimmed(s) ==
    LET nz == {i \in 1..Len(s) : s[i] \notin Whitespace} IN
    IF nz = {} THEN <<>>
    ELSE SubSeq(s, CHOOSE i \in nz : \A j \in nz : i <= j,
                   CHOOSE i \in nz : \A j \in nz : j <= i)

MarkerIdx == {i \in 1..Len(fasta_lines) : Len(fasta_lines[i]) >= 1 /\ fasta_lines[i][1] = ">"}

NthMarker(n) == CHOOSE i \in MarkerIdx : Cardinality({j \in MarkerIdx : j < i}) = n - 1

RecordEnd(n) ==
    IF n = Cardinality(MarkerIdx) THEN Len(fasta_lines) ELSE NthMarker(n + 1) - 1

RECURSIVE ConcatTrimmed(_, _)
ConcatTrimmed(from, to) ==
    IF from > to THEN <<>>
    ELSE Trimmed(fasta_lines[from]) \o ConcatTrimmed(from + 1, to)

RefIds == [n \in 1..Cardinality(MarkerIdx) |-> Trimmed(Tail(fasta_lines[NthMarker(n)]))]

RefSeqs == [n \in 1..Cardinality(MarkerIdx) |-> ConcatTrimmed(NthMarker(n) + 1, RecordEnd(n))]

\* a line with no cell content: only whitespace and cell separators
Blank(raw) == \A i \in 1..Len(raw) : raw[i] \in Whitespace \cup {","}

RECURSIVE NonBlank(_)
NonBlank(lines) ==
    IF lines = <<>> THEN <<>>
    ELSE (IF Blank(Head(lines)) THEN <<>> ELSE <<Head(lines)>>) \o NonBlank(Tail(lines))

\* cells of a non-blank line: one more than its separators (a run of
\* whitespace inside the trimmed line, or a comma)
TokenCount(raw) ==
    LET t == Trimmed(raw) IN
    1 + Cardinality({i \in 1..Len(t) : t[i] = ","})
      + Cardinality({i \in 1..(Len(t) - 1) : t[i] \in Whitespace /\ t[i + 1] \notin Whitespace})

MaxTokens(lines) ==
    LET nb == NonBlank(lines)
        counts == {TokenCount(nb[i]) : i \in 1..Len(nb)}
    IN  CHOOSE m \in counts : \A c \in counts : c <= m

LineHasAlpha(raw) == \E i \in 1..Len(raw) : raw[i] \in Alpha

RECURSIVE Sum(_)
Sum(cells) == IF cells = <<>> THEN 0 ELSE Head(cells)[1] + Sum(Tail(cells))

AllButLast(row) == SubSeq(row, 1, Len(row) - 1)

TxtEntry(k) == zip_entries[TxtFiles(zip_entries)[k]]
NumTxt == Len(TxtFiles(zip_entries))

\* the archive loop is at or past its end without an exception
LoopDone == (pc = "txt" /\ ti > Len(txt_files)) \/ pc = "autotrim"

\* the tables are as the archive loop left them
Untrimmed == pc \in {"txt", "autotrim"}

DistinctBaseNames ==
    \A i, j \in 1..NumTxt :
        i # j => BaseName(TxtEntry(i).file_name) # BaseName(TxtEntry(j).file_name)

Rendering == pc \in {"render", "averages", "save", "done"}

----------------------------------------------------------------------------
(* C9: once the FASTA loop has ended (and before any trimming), the        *)
(* identifiers and sequences are, in input order, one per line that begins *)
(* with '>': the identifier is the rest of that line trimmed, the sequence *)
(* the concatenation of the trimmed lines up to the next such line or the  *)
(* end; lines before the first marker belong to no record; the two lists   *)
(* always have the same length.                                            *)
C9_ParserRecords ==
    /\ Len(sequence_ids) = Len(sequences)
    /\ pc \in {"zip", "txt", "autotrim"} =>
          /\ sequence_ids = RefIds
          /\ sequences = RefSeqs

\* a leading non-marker line with content, then a record with no sequence
\* line, then a record that ends the input
C9_Witness ==
    /\ pc = "zip"
    /\ Len(fasta_lines) = 3
    /\ Trimmed(fasta_lines[1]) # <<>> /\ 1 \notin MarkerIdx
    /\ Len(sequence_ids) = 2
    /\ sequences = << <<>>, <<>> >>

----------------------------------------------------------------------------
(* Properties of one entry's table.  Under SpecNorm base names are         *)
(* distinct, so the k-th table of the collection is the k-th .txt entry's. *)

\* the table of the k-th entry before line 61 appended the derived column
FeatureCells(k) ==
    [i \in 1..Len(dataframes[k].df.data) |-> AllButLast(dataframes[k].df.data[i])]

\* 1 when the first non-blank line of the entry has an alphabetic character
HeaderLines(lines) == IF LineHasAlpha(NonBlank(lines)[1]) THEN 1 ELSE 0

(* C4: every table has exactly one derived column, the last: the width is  *)
(* one more than the number of feature cells, and the derived cell of row  *)
(* i is the exact arithmetic mean of the feature cells of row i of the     *)
(* same table (their sum divided by their number), whatever other tables   *)
(* the archive holds.  A row of no feature cells has no mean (NaN).        *)
C4_AverageIsRowMean ==
    Untrimmed =>
        \A k \in 1..Len(dataframes) :
            LET df == dataframes[k].df
                pre == DataFrame(StripFirstColumn(SkipHeader(padded(Rows(TxtEntry(k).lines)))))
            IN  /\ df.columns = pre.columns + 1
                /\ Len(df.data) = Len(pre.data)
                /\ \A i \in 1..Len(df.data) :
                      LET cells == pre.data[i]
                          avg == df.data[i][Len(df.data[i])]
                      IN  /\ AllButLast(df.data[i]) = cells
                          /\ Len(df.data[i]) = Len(cells) + 1
                          /\ IF cells = <<>> THEN avg = NaN
                             ELSE /\ avg[2] > 0
                                  /\ avg[1] * Len(cells) = Sum(cells) * avg[2]
                                  /\ GCD(avg[1], avg[2]) = 1

\* feature cells {1, 2, 3} give exactly 2, next to another table
C4_Witness ==
    /\ pc = "autotrim"
    /\ Len(dataframes) = 2
    /\ \E i \in 1..Len(dataframes[2].df.data) :
          dataframes[2].df.data[i] = <<Num(1), Num(2), Num(3), Num(2)>>

(* C5 as stated: for every entry with a non-blank line, every row of the   *)
(* table the normaliser builds (lines 45-58, before the derived column)    *)
(* has the same cell count, the maximum token count of the entry's lines.  *)
C5_WidthIsMaxTokens ==
    Untrimmed =>
        \A k \in 1..Len(dataframes) :
            \A i \in 1..Len(FeatureCells(k)) :
                Len(FeatureCells(k)[i]) = MaxTokens(TxtEntry(k).lines)

(* C5 amended: every row of the table has the same cell count, one less    *)
(* than the maximum token count of the entry's non-blank lines, because    *)
(* the leading cell of every row is removed after padding (line 56); the   *)
(* cells a shorter line lacks are 0; with the derived column the width is  *)
(* the maximum token count again.                                          *)
C5_WidthIsMaxTokensLessIndex ==
    Untrimmed =>
        \A k \in 1..Len(dataframes) :
            LET lines == TxtEntry(k).lines
                nb == NonBlank(lines)
                cells == FeatureCells(k)
            IN  \A i \in 1..Len(cells) :
                      /\ Len(cells[i]) = MaxTokens(lines) - 1
                      /\ Len(dataframes[k].df.data[i]) = MaxTokens(lines)
                      /\ dataframes[k].df.columns = MaxTokens(lines)
                      /\ \A j \in 1..Len(cells[i]) :
                            j + 1 > TokenCount(nb[i + HeaderLines(lines)])
                                => cells[i][j] = Num(0)

\* a ragged entry: a line of four tokens and a line of two
C5_Witness ==
    /\ pc = "autotrim"
    /\ Len(dataframes) = 1
    /\ zip_entries[1].lines = << <<"7", " ", "1", " ", "2", " ", "3">>, <<"1", "\t", "4">> >>
    /\ FeatureCells(1) = << <<Num(1), Num(2), Num(3)>>, <<Num(4), Num(0), Num(0)>> >>

(* C6 as stated: every cell of every table, the derived average included,  *)
(* is a real number, for every table width.                                *)
C6_EveryCellReal ==
    \A k \in 1..Len(dataframes) :
        \A i \in 1..Len(dataframes[k].df.data) :
            \A j \in 1..Len(dataframes[k].df.data[i]) :
                IsReal(dataframes[k].df.data[i][j])

(* C7: an entry with no row left after blank-line removal ends the run     *)
(* with the exception of line 52 before any table of it is stored, any     *)
(* workbook created or any download offered; an entry with a non-blank     *)
(* line never raises and yields a table whose rows all have the table's    *)
(* width (a header-only entry yields a table of no rows).                  *)
C7_EmptyEntryFailsFast ==
    \A k \in 1..NumTxt :
        LET lines == TxtEntry(k).lines IN
        IF NonBlank(lines) = <<>>
        THEN /\ Len(dataframes) < k
             /\ ~Rendering /\ wb = None /\ ~download
             /\ (pc = "txt" => ti <= k)
             /\ pc \in {"fasta", "zip", "txt", "crashed"}
             /\ (pc = "crashed" /\ Len(dataframes) = k - 1 => exception = "ValueError")
        ELSE /\ (pc = "crashed" /\ exception = "ValueError" => Len(dataframes) # k - 1)
             /\ (Untrimmed /\ Len(dataframes) >= k =>
                    /\ Len(dataframes[k].df.data) = Len(NonBlank(lines)) - HeaderLines(lines)
                    /\ \A i \in 1..Len(dataframes[k].df.data) :
                          Len(dataframes[k].df.data[i]) = dataframes[k].df.columns)

\* an entry of whitespace-only lines, after a first entry that was read
C7_Witness ==
    /\ pc = "crashed"
    /\ exception = "ValueError"
    /\ Len(zip_entries) = 2
    /\ zip_entries[2].lines = << <<>>, <<" ", "\t">> >>
    /\ Len(dataframes) = 1
    /\ wb = None /\ ~download

(* C8: the first non-blank row is dropped exactly when one of its cells    *)
(* has an alphabetic character, and no other row is dropped: the table has *)
(* one row per non-blank line, less one when the first non-blank line has  *)
(* an alphabetic character.                                                *)
C8_HeaderDetection ==
    Untrimmed =>
        \A k \in 1..Len(dataframes) :
            LET lines == TxtEntry(k).lines IN
            /\ Len(dataframes[k].df.data) = Len(NonBlank(lines)) - HeaderLines(lines)
            /\ row_counts[k] = Len(NonBlank(lines)) - HeaderLines(lines)

\* a numeric first line kept, a later line with letters kept too
C8_Witness ==
    /\ pc = "autotrim"
    /\ Len(dataframes) = 1
    /\ zip_entries[1].lines = << <<"5">>, <<>>, <<"x", " ", "a">> >>
    /\ row_counts = <<2>>

----------------------------------------------------------------------------
(* Properties of whole runs.  The "first feature table" is the table of    *)
(* the first .txt entry of the listing, the one whose row count the        *)
(* reconciler reads as row_counts[0].                                      *)

\* row count of the k-th .txt entry's table
RefCount(k) ==
    Len(NonBlank(TxtEntry(k).lines)) - HeaderLines(TxtEntry(k).lines)

\* every .txt entry has a non-blank line, and there is at least one entry
AllReadable ==
    /\ NumTxt >= 1
    /\ \A k \in 1..NumTxt : NonBlank(TxtEntry(k).lines) # <<>>

OffByOne == Abs(Len(RefIds) - RefCount(1)) = 1

AllCountsEqual == \A k \in 1..NumTxt : RefCount(k) = Len(RefIds)

\* the table the archive loop stored last under a key
StoredTable(key) ==
    LET ks == {k \in 1..NumTxt : BaseName(TxtEntry(k).file_name) = key}
    IN  Table(TxtEntry(CHOOSE k \in ks : \A j \in ks : j <= k).lines)

AfterAutoTrim == pc \in {"validate", "stopped", "render", "averages", "save", "done"}

(* C1 as stated, for listings of distinct base names: whenever the run is  *)
(* past validation and renders, the sequence list and every feature table  *)
(* have the row count the renderer uses.                                   *)
C1_EqualRowCountsAtRendering ==
    DistinctBaseNames /\ Rendering =>
        /\ Len(sequence_ids) = row_counts[1]
        /\ Len(sequences) = row_counts[1]
        /\ \A k \in 1..Len(dataframes) :
              Len(dataframes[k].df.data) = row_counts[1]

(* C2: when the sequence count and the first table's row count do not      *)
(* differ by exactly 1 and the row counts of the sequence list and the     *)
(* tables are not all the same, the run never creates a workbook nor       *)
(* offers a download: validation reports one error and stops it.           *)
C2_MismatchHaltsBeforeOutput ==
    AllReadable /\ ~OffByOne /\ ~AllCountsEqual =>
        /\ pc \in {"fasta", "zip", "txt", "autotrim", "validate", "stopped"}
        /\ wb = None
        /\ ~download
        /\ warnings = <<>>
        /\ (pc = "stopped" <=> errors # <<>>)
        /\ Len(errors) <= 1

\* sequence count 2, tables of 2 and 3 rows: the per-table counts are reported
C2_Witness ==
    /\ pc = "stopped"
    /\ Len(RefIds) = 2
    /\ NumTxt = 2 /\ DistinctBaseNames
    /\ RefCount(1) = 2 /\ RefCount(2) = 3
    /\ wb = None /\ ~download
    /\ errors = << [kind |-> "RowCountMismatch",
                    counts |-> << [fname |-> BaseName(TxtEntry(1).file_name), rows |-> 2],
                                  [fname |-> BaseName(TxtEntry(2).file_name), rows |-> 3] >>] >>

(* C3: AutoTrim fires exactly when the sequence count and the first        *)
(* table's row count differ by exactly 1, at most once.  When it fires one *)
(* warning is emitted, the identifiers and the sequences are cut to their  *)
(* first m = min(sequence count, first table's count) elements, every      *)
(* table to its first m rows, and the effective row count is m.  When it   *)
(* does not fire there is no warning and nothing is shortened.             *)
C3_AutoTrim ==
    /\ Len(warnings) <= 1
    /\ (~AfterAutoTrim /\ pc # "crashed" => warnings = <<>>)
    /\ AfterAutoTrim =>
          LET m == Min(Len(RefIds), RefCount(1)) IN
          /\ warnings # <<>> <=> OffByOne
          /\ IF warnings # <<>>
             THEN /\ sequence_ids = Take(RefIds, m)
                  /\ sequences = Take(RefSeqs, m)
                  /\ \A k \in 1..Len(dataframes) :
                        LET t == StoredTable(dataframes[k].key) IN
                        /\ dataframes[k].df.data = Take(t.data, m)
                        /\ dataframes[k].df.columns = t.columns
                        /\ Len(dataframes[k].df.data) <= m
                  /\ row_counts = <<m>>
                  /\ min_len = m
             ELSE /\ sequence_ids = RefIds
                  /\ sequences = RefSeqs
                  /\ \A k \in 1..Len(dataframes) :
                        dataframes[k].df = StoredTable(dataframes[k].key)
                  /\ row_counts = [k \in 1..NumTxt |-> RefCount(k)]

\* sequence count 3, first table 2 rows, second table 3 rows: both end with 2
C3_Witness ==
    /\ pc = "done"
    /\ warnings = <<"auto-trimmed">>
    /\ Len(RefIds) = 3
    /\ NumTxt = 2 /\ DistinctBaseNames
    /\ RefCount(1) = 2 /\ RefCount(2) = 3
    /\ Len(sequence_ids) = 2
    /\ Len(dataframes[2].df.data) = 2
    /\ row_counts = <<2>>

(* C10 as stated: after the archive loop the collection holds exactly one  *)
(* table per .txt entry, in listing order, and the k-th recorded row count *)
(* is the row count of the k-th table of the collection.                   *)
C10_OneTablePerEntry ==
    LoopDone =>
        /\ Len(dataframes) = NumTxt
        /\ Len(row_counts) = Len(dataframes)
        /\ \A k \in 1..Len(dataframes) :
              /\ k <= NumTxt => dataframes[k].df = Table(TxtEntry(k).lines)
              /\ k <= Len(row_counts) => row_counts[k] = Len(dataframes[k].df.data)
====
